---- MODULE Spec2Model ----
(***************************************************************************)
(* Model of the MODIS fire-radiative-power scripts                         *)
(*   src/20161013_hdf_frp.py   (BAND22-primary variant, the one modelled)  *)
(*   src/20160414_FRP_filt_adj.py (older variant, same rampFn and filter)  *)
(*                                                                         *)
(* Numbers.  Brightness temperatures and reflectances are drawn from       *)
(* integer palettes.  Means and mean-absolute-deviations are exact         *)
(* rationals <<num, den>> (den > 0, lowest terms); the sentinel -4.0 is    *)
(* <<-4, 1>>.  Values handed to rampFn are Python numbers: a record with   *)
(* the type ("int", "float", "pinf", "ninf", "nan") next to the rational,  *)
(* because Python 2 divides int/int by floor division and numpy float      *)
(* division by zero yields inf or nan.  Floating-point rounding is not     *)
(* modelled.                                                               *)
(***************************************************************************)
EXTENDS Integers, Sequences, FiniteSets, TLC

VARIABLES
  pc,            \* which specification / which stage of process() is next
  filList,       \* the batch: sequence of granules still to be read from disk
  fileIdx,       \* index in filList of the granule being processed
  datsWdata,     \* module-level list datsWdata (line 50)
  csvFiles,      \* files written by np.savetxt: sequence of [file, rows]
  fullArrays,    \* dict fullArrays of process()
  allArrays,     \* dict allArrays of process() (clipped grids)
  loc,           \* the other local variables of process(), by name
  band,          \* argument of wakelinMeanMADFilter (filter specification)
  bandFiltMean2, \* first result of wakelinMeanMADFilter
  bandFiltMAD2,  \* second result of wakelinMeanMADFilter
  rampArgs,      \* arguments <<band, rampMin, rampMax>> of rampFn
  confVals       \* result of rampFn

vars == <<pc, filList, fileIdx, datsWdata, csvFiles, fullArrays, allArrays, loc,
          band, bandFiltMean2, bandFiltMAD2, rampArgs, confVals>>

(***************************************************************************)
(* Program constants (src/20161013_hdf_frp.py lines 39-49).                *)
(***************************************************************************)
minNcount == 8
minNfracNum == 1
minNfracDen == 4
minKsize == 5
maxKsize == 21
b22saturationVal == 331
reductionFactor == 1
increaseFactor == 1 + (1 - reductionFactor)
waterFlag == -1
cloudFlag == -2
bgFlag == -3

(***************************************************************************)
(* Exact rational arithmetic.                                              *)
(***************************************************************************)
Abs(n) == IF n < 0 THEN -n ELSE n

RECURSIVE GCD(_, _)
GCD(a, b) == IF b = 0 THEN a ELSE GCD(b, a % b)

Q(n, d) ==
  LET s == IF d < 0 THEN -1 ELSE 1
      g == GCD(Abs(n), Abs(d))
  IN  <<(s * n) \div g, (s * d) \div g>>

QI(n) == <<n, 1>>
QAdd(a, b) == Q(a[1] * b[2] + b[1] * a[2], a[2] * b[2])
QSub(a, b) == Q(a[1] * b[2] - b[1] * a[2], a[2] * b[2])
QMul(a, b) == Q(a[1] * b[1], a[2] * b[2])
QLt(a, b) == a[1] * b[2] < b[1] * a[2]
QLe(a, b) == a[1] * b[2] <= b[1] * a[2]

(***************************************************************************)
(* 2-D arrays are functions on (0..nRows-1) \X (0..nCols-1).               *)
(***************************************************************************)
Idx(nr, nc) == (0 .. nr - 1) \X (0 .. nc - 1)

NRowsOf(a) == Cardinality({p[1] : p \in DOMAIN a})
NColsOf(a) == Cardinality({p[2] : p \in DOMAIN a})

\* np.pad(..., mode='symmetric') and scipy.ndimage mode='reflect': the array
\* is mirrored about its edge, the edge value repeated, as often as needed.
Reflect(i, n) ==
  LET m == i % (2 * n) IN IF m < n THEN m ELSE 2 * n - 1 - m

\* element [x, y] of np.pad(a, ((bSize, bSize), (bSize, bSize)), 'symmetric')
\* for an array a of shape (nr, nc)
PadSymmetric(a, nr, nc, bSize, x, y) ==
  a[<<Reflect(x - bSize, nr), Reflect(y - bSize, nc)>>]

\* sum of s[lo..hi]
RECURSIVE SumRange(_, _, _)
SumRange(s, lo, hi) ==
  IF lo > hi THEN 0
  ELSE IF lo = hi THEN s[lo]
  ELSE SumRange(s, lo, (lo + hi) \div 2) + SumRange(s, ((lo + hi) \div 2) + 1, hi)

SumSeq(s) == SumRange(s, 1, Len(s))

\* a deliberately wrong footprint, which excludes the centre cell only
makeFootprintCentreOnly(kSize) ==
  [n \in 1 .. kSize * kSize |->
     IF n = ((kSize - 1) \div 2) * kSize + ((kSize - 1) \div 2) + 1
     THEN -5 ELSE 1]

(***************************************************************************)
(* makeFootprint (lines 78-84): kSize x kSize ones, with -5 at the centre  *)
(* row, columns centre-1 .. centre+1.  Flattened row-major, 1-based.       *)
(***************************************************************************)
makeFootprint(kSize) ==
  LET fpZeroLine == (kSize - 1) \div 2
      fpZeroColStart == fpZeroLine - 1
      fpZeroColEnd == fpZeroColStart + 3
  IN  [n \in 1 .. kSize * kSize |->
         LET r == (n - 1) \div kSize
             c == (n - 1) % kSize
         IN  IF r = fpZeroLine /\ c >= fpZeroColStart /\ c < fpZeroColEnd
             THEN -5 ELSE 1]

(***************************************************************************)
(* wakelinMeanMADFilter (lines 165-228).                                   *)
(***************************************************************************)
\* lines 185-198: the copied kernel with the footprint cells set to -5, and
\* its strictly positive entries.  bm is <<band, nRows, nCols, bSize>>, which
\* stands for bandMatrix, the padded band.
MaskedKernel(bm, x, y, kSize, fpMask) ==
  [n \in 1 .. kSize * kSize |->
     IF fpMask[n] < 0 THEN -5
     ELSE PadSymmetric(bm[1], bm[2], bm[3], bm[4],
                       x - ((kSize - 1) \div 2) + ((n - 1) \div kSize),
                       y - ((kSize - 1) \div 2) + ((n - 1) % kSize))]

Positive(v) == v > 0

Nghbrs(bm, x, y, kSize) ==
  SelectSeq(MaskedKernel(bm, x, y, kSize, makeFootprint(kSize)), Positive)

\* lines 201-203: np.mean(nghbrs) and np.mean(np.abs(nghbrs - bgMean))
BgMean(nghbrs) == Q(SumSeq(nghbrs), Len(nghbrs))

MeanDistsTimesN(nghbrs, n, s) == [i \in 1 .. n |-> Abs(nghbrs[i] * n - s)]

BgMAD(nghbrs) ==
  Q(SumSeq(MeanDistsTimesN(nghbrs, Len(nghbrs), SumSeq(nghbrs))),
    Len(nghbrs) * Len(nghbrs))

\* line 200
EnoughNghbrs(nghbrCnt, kSize) ==
  /\ nghbrCnt > minNcount
  /\ nghbrCnt * minNfracDen > minNfracNum * kSize * kSize

\* line 194, as the source has it: centerVal is read from the padded INPUT
\* band, so for kSize > minKsize the window is examined only where the input
\* itself holds -4.
KernelExamined(centerVal, kSize, minK) ==
  /\ (kSize = minK) \/ (centerVal = -4)
  /\ centerVal \notin {-2, -1}

\* lines 198-209: the statistics of one kernel, or -4 for both
KernelStats(nghbrs, kSize) ==
  IF EnoughNghbrs(Len(nghbrs), kSize)
  THEN <<BgMean(nghbrs), BgMAD(nghbrs)>>
  ELSE <<QI(-4), QI(-4)>>

\* lines 178-209 for one kSize and one pixel: <<mean, MAD>> of the _tmp grids
FiltTmp(bm, p, kSize, minK) ==
  IF KernelExamined(PadSymmetric(bm[1], bm[2], bm[3], bm[4],
                                 p[1] + bm[4], p[2] + bm[4]), kSize, minK)
  THEN KernelStats(Nghbrs(bm, p[1] + bm[4], p[2] + bm[4], kSize), kSize)
  ELSE <<QI(-4), QI(-4)>>

\* a deliberately wrong fill step, which fills Mean and leaves MAD
FillMeanOnly(cur, tmp) ==
  <<IF cur[1] = QI(-4) THEN tmp[1] ELSE cur[1], cur[2]>>

\* lines 223-225, one step: cells of Mean (of MAD) still at -4 take the value
\* of the kSize grid
FillStep(cur, tmp) ==
  <<IF cur[1] = QI(-4) THEN tmp[1] ELSE cur[1],
    IF cur[2] = QI(-4) THEN tmp[2] ELSE cur[2]>>

\* lines 218-226: start from the minKsize grids and fill from each larger
\* kSize in turn
RECURSIVE FillFrom(_, _, _, _, _, _)
FillFrom(bm, p, kSize, minK, maxK, cur) ==
  IF kSize > maxK THEN cur
  ELSE FillFrom(bm, p, kSize + 2, minK, maxK,
                FillStep(cur, FiltTmp(bm, p, kSize, minK)))

FiltAll(bm, dom, maxK, minK) ==
  [p \in dom |-> FillFrom(bm, p, minK + 2, minK, maxK, FiltTmp(bm, p, minK, minK))]

\* the result: a function from pixels to <<Mean, MAD>>
wakelinMeanMADFilter(b, maxK, minK) ==
  FiltAll(<<b, NRowsOf(b), NColsOf(b), (maxK - 1) \div 2>>, DOMAIN b, maxK, minK)

Mean2(f) == [p \in DOMAIN f |-> f[p][1]]
MAD2(f) == [p \in DOMAIN f |-> f[p][2]]

(***************************************************************************)
(* Python numbers, as rampFn and the confidence arithmetic see them.       *)
(***************************************************************************)
PInt(n) == [ty |-> "int", q |-> QI(n)]
PFlt(q) == [ty |-> "float", q |-> q]
PNaN == [ty |-> "nan", q |-> QI(0)]
PPInf == [ty |-> "pinf", q |-> QI(0)]
PNInf == [ty |-> "ninf", q |-> QI(0)]

PFinite(a) == a.ty \in {"int", "float"}

\* a < b; every comparison with nan is false
PyLt(a, b) ==
  CASE a.ty = "nan" \/ b.ty = "nan" -> FALSE
    [] PFinite(a) /\ PFinite(b) -> QLt(a.q, b.q)
    [] a.ty = "ninf" -> b.ty # "ninf"
    [] b.ty = "pinf" -> a.ty # "pinf"
    [] OTHER -> FALSE

\* a >= b
PyGe(a, b) ==
  CASE a.ty = "nan" \/ b.ty = "nan" -> FALSE
    [] OTHER -> ~PyLt(a, b)

\* floor of a rational
QFloor(a) == (a[1] - (a[1] % a[2])) \div a[2]

\* (bandVal - rampMin) / (rampMax - rampMin) for finite operands (line 138):
\* Python 2 without true division floors the quotient of integers
PyRampQuot(bandVal, rampMin, rampMax) ==
  LET num == QSub(bandVal.q, rampMin.q)
      den == QSub(rampMax.q, rampMin.q)
      quo == Q(num[1] * den[2], num[2] * den[1])
  IN  IF bandVal.ty = "int" /\ rampMin.ty = "int" /\ rampMax.ty = "int"
      THEN QI(QFloor(quo))
      ELSE quo

(***************************************************************************)
(* rampFn (lines 133-143).  conf is set once, before the loop, and is      *)
(* appended for every element, whether or not an if-branch assigned it.    *)
(***************************************************************************)
RampStep(conf, bandVal, rampMin, rampMax) ==
  LET c1 == IF PyLt(rampMin, bandVal) /\ PyLt(bandVal, rampMax)
            THEN PyRampQuot(bandVal, rampMin, rampMax)
            ELSE conf
  IN  IF PyGe(bandVal, rampMax) THEN QI(1) ELSE c1

RECURSIVE RampLoop(_, _, _, _, _, _)
RampLoop(bnd, i, conf, rampMin, rampMax, acc) ==
  IF i > Len(bnd) THEN acc
  ELSE LET c == RampStep(conf, bnd[i], rampMin, rampMax)
       IN  RampLoop(bnd, i + 1, c, rampMin, rampMax, Append(acc, c))

rampFn(bnd, rampMin, rampMax) == RampLoop(bnd, 1, QI(0), rampMin, rampMax, <<>>)

(***************************************************************************)
(* Inputs.  A granule is what gdal.Open / ReadAsArray deliver for one      *)
(* MOD02/MOD03 pair (lines 365-486): whether the layers can be opened, and *)
(* one value per pixel and layer.  Pixels are drawn from a palette of      *)
(* kinds; a scene is a uniform background with a few special pixels.       *)
(* Temperatures are in K, reflectances are x1000, LAT/LON in millidegrees, *)
(* the angles are the raw layer values.                                    *)
(***************************************************************************)
FullRows == 4
FullCols == 4
MaxSpecial == 2

PixelKind ==
  [ cool    |-> [B21 |-> 290, B22 |-> 290, B31 |-> 285, B32 |-> 285, B1 |-> 50,
                 B2 |-> 100, B7 |-> 100, LM |-> 1, SZ |-> 4500],
    coolN   |-> [B21 |-> 290, B22 |-> 290, B31 |-> 275, B32 |-> 285, B1 |-> 50,
                 B2 |-> 100, B7 |-> 100, LM |-> 1, SZ |-> 9000],
    hot     |-> [B21 |-> 380, B22 |-> 335, B31 |-> 290, B32 |-> 288, B1 |-> 50,
                 B2 |-> 100, B7 |-> 100, LM |-> 1, SZ |-> 4500],
    hotN    |-> [B21 |-> 308, B22 |-> 308, B31 |-> 293, B32 |-> 291, B1 |-> 50,
                 B2 |-> 100, B7 |-> 100, LM |-> 1, SZ |-> 9000],
    warm    |-> [B21 |-> 340, B22 |-> 340, B31 |-> 325, B32 |-> 320, B1 |-> 50,
                 B2 |-> 100, B7 |-> 100, LM |-> 1, SZ |-> 4500],
    mid     |-> [B21 |-> 330, B22 |-> 325, B31 |-> 310, B32 |-> 305, B1 |-> 50,
                 B2 |-> 100, B7 |-> 100, LM |-> 1, SZ |-> 4500],
    blaze   |-> [B21 |-> 600, B22 |-> 335, B31 |-> 300, B32 |-> 298, B1 |-> 50,
                 B2 |-> 100, B7 |-> 100, LM |-> 1, SZ |-> 4500],
    ember   |-> [B21 |-> 365, B22 |-> 335, B31 |-> 360, B32 |-> 358, B1 |-> 50,
                 B2 |-> 100, B7 |-> 100, LM |-> 1, SZ |-> 4500],
    glint   |-> [B21 |-> 380, B22 |-> 335, B31 |-> 290, B32 |-> 288, B1 |-> 50,
                 B2 |-> 100, B7 |-> 100, LM |-> 1, SZ |-> 44],
    cloud   |-> [B21 |-> 280, B22 |-> 280, B31 |-> 270, B32 |-> 268, B1 |-> 500,
                 B2 |-> 500, B7 |-> 300, LM |-> 1, SZ |-> 4500],
    water   |-> [B21 |-> 290, B22 |-> 290, B31 |-> 285, B32 |-> 285, B1 |-> 20,
                 B2 |-> 30, B7 |-> 10, LM |-> 0, SZ |-> 4500],
    shore   |-> [B21 |-> 290, B22 |-> 290, B31 |-> 285, B32 |-> 285, B1 |-> 60,
                 B2 |-> 40, B7 |-> 20, LM |-> 1, SZ |-> 4500],
    seaCloud |-> [B21 |-> 280, B22 |-> 280, B31 |-> 270, B32 |-> 268, B1 |-> 500,
                 B2 |-> 500, B7 |-> 300, LM |-> 0, SZ |-> 4500],
    seaFire |-> [B21 |-> 380, B22 |-> 335, B31 |-> 290, B32 |-> 288, B1 |-> 50,
                 B2 |-> 100, B7 |-> 100, LM |-> 0, SZ |-> 4500],
    cloudFire |-> [B21 |-> 380, B22 |-> 335, B31 |-> 290, B32 |-> 288, B1 |-> 500,
                 B2 |-> 500, B7 |-> 300, LM |-> 1, SZ |-> 4500] ]

Backgrounds == {"cool", "coolN"}
Specials ==
  {"hot", "hotN", "warm", "mid", "blaze", "ember", "glint", "cloud", "water", "shore"}

FullIdx == Idx(FullRows, FullCols)
Sites == {<<1, 1>>, <<1, 2>>, <<2, 1>>}

Scenes ==
  UNION {
    { [p \in FullIdx |-> IF p \in DOMAIN ov THEN ov[p] ELSE bg] :
        ov \in UNION { [S -> Specials] :
                 S \in {T \in SUBSET Sites : Cardinality(T) <= MaxSpecial} } } :
    bg \in Backgrounds }

\* LAT and LON of a granule, by geolocation pattern
\* ("offset": the first row and the first column lie outside the box)
\* ("onerow": only the second row lies inside the box; "skewed": the lines
\* of equal latitude cross the rows, and the first pixels lie south of the
\* box)
GeoLat(geo, p) ==
  IF geo = "skewed" THEN 64970 + 10 * (p[1] + p[2])
  ELSE IF geo = "inbox" \/ (geo = "offset" /\ p[1] > 0)
          \/ (geo = "onerow" /\ p[1] = 1)
  THEN 65100 + 10 * p[1] ELSE 60000
GeoLon(geo, p) ==
  IF geo = "offset" /\ p[2] = 0 THEN -150000 ELSE -147500 + 10 * p[2]

Geos == {"inbox", "outside", "onerow"}

\* command-line defaults, lines 16-19
minLat == 65000
maxLat == 65525
minLon == -148000
maxLon == -146000

\* scenes of one kind of pixel
Uniform == {[p \in FullIdx |-> k] : k \in Backgrounds \cup {"hot", "hotN"}}

\* scenes with a pixel that is water and cloud at once, next to a hot pixel
\* that is water or cloud as well
Mixed ==
  {[p \in FullIdx |-> IF p = <<1, 1>> THEN "seaCloud"
                      ELSE IF p = <<1, 2>> THEN k ELSE "cool"] :
     k \in {"seaFire", "cloudFire"}}

\* a hot pixel among cool ones
Lone == {[p \in FullIdx |-> IF p = <<1, 1>> THEN "hot" ELSE "cool"]}

\* a hot pixel under a deck of cloud
Overcast == {[p \in FullIdx |-> IF p = <<1, 1>> THEN "hot" ELSE "cloud"]}

Granules ==
  [readable : {TRUE}, geo : {"inbox"},
   scene : Scenes \cup Uniform \cup Mixed \cup Overcast]
  \cup [readable : {TRUE}, geo : {"offset"}, scene : Uniform]
  \cup [readable : {TRUE}, geo : {"skewed"}, scene : Uniform \cup Lone]
  \cup [readable : BOOLEAN, geo : Geos,
        scene : {[p \in FullIdx |-> bg] : bg \in Backgrounds}]

\* batches of several granules: one that cannot be opened, one outside the
\* box, one with fires and one without
MaxBatch == 3

BatchGranules ==
  { [readable |-> FALSE, geo |-> "inbox", scene |-> [p \in FullIdx |-> "cool"]],
    [readable |-> TRUE, geo |-> "outside", scene |-> [p \in FullIdx |-> "cool"]],
    [readable |-> TRUE, geo |-> "inbox", scene |-> [p \in FullIdx |-> "hot"]],
    [readable |-> TRUE, geo |-> "inbox", scene |-> [p \in FullIdx |-> "cool"]] }

Batches == UNION {[1 .. n -> BatchGranules] : n \in 2 .. MaxBatch}

EmptyLoc == [x \in {} |-> 0]

Idle ==
  /\ band = <<>> /\ bandFiltMean2 = <<>> /\ bandFiltMAD2 = <<>>
  /\ rampArgs = <<>> /\ confVals = <<>>

Init ==
  /\ pc = "open"
  /\ filList \in {<<g>> : g \in Granules} \cup Batches
  /\ fileIdx = 1
  /\ datsWdata = <<>>
  /\ csvFiles = <<>>
  /\ fullArrays = EmptyLoc
  /\ allArrays = EmptyLoc
  /\ loc = EmptyLoc
  /\ Idle

\* map(process, filList), line 873: the next file, or the end of the batch
NextFile ==
  /\ fileIdx' = fileIdx + 1
  /\ pc' = IF fileIdx + 1 > Len(filList) THEN "done" ELSE "open"

(***************************************************************************)
(* process(), lines 341-486: open the layers and read the full arrays.     *)
(* A layer that cannot be opened raises IOError, which nothing catches.    *)
(***************************************************************************)
ReadArrays(g) ==
  [ BAND21 |-> [p \in FullIdx |-> PixelKind[g.scene[p]].B21],
    BAND22 |-> [p \in FullIdx |-> PixelKind[g.scene[p]].B22],
    BAND31 |-> [p \in FullIdx |-> PixelKind[g.scene[p]].B31],
    BAND32 |-> [p \in FullIdx |-> PixelKind[g.scene[p]].B32],
    BAND1x1k |-> [p \in FullIdx |-> PixelKind[g.scene[p]].B1],
    BAND2x1k |-> [p \in FullIdx |-> PixelKind[g.scene[p]].B2],
    BAND7x1k |-> [p \in FullIdx |-> PixelKind[g.scene[p]].B7],
    LANDMASK |-> [p \in FullIdx |-> PixelKind[g.scene[p]].LM],
    SolarZenith |-> [p \in FullIdx |-> PixelKind[g.scene[p]].SZ],
    SensorZenith |-> [p \in FullIdx |-> 0],
    SolarAzimuth |-> [p \in FullIdx |-> 0],
    SensorAzimuth |-> [p \in FullIdx |-> 0],
    LAT |-> [p \in FullIdx |-> GeoLat(g.geo, p)],
    LON |-> [p \in FullIdx |-> GeoLon(g.geo, p)] ]

Open ==
  /\ pc = "open"
  /\ LET g == filList[fileIdx]
     IN  IF g.readable
         THEN /\ fullArrays' = ReadArrays(g)
              /\ pc' = "clip"
         ELSE /\ fullArrays' = EmptyLoc
              /\ pc' = "raised"
  /\ allArrays' = EmptyLoc
  /\ loc' = EmptyLoc
  /\ UNCHANGED <<filList, fileIdx, datsWdata, csvFiles,
                 band, bandFiltMean2, bandFiltMAD2, rampArgs, confVals>>

(***************************************************************************)
(* lines 489-506: clip to the bounding coordinates.                        *)
(***************************************************************************)
SetMin(S) == CHOOSE x \in S : \A y \in S : x <= y
SetMax(S) == CHOOSE x \in S : \A y \in S : x >= y

BoundCrds(full) ==
  {p \in DOMAIN full.LAT :
     /\ minLat < full.LAT[p] /\ full.LAT[p] < maxLat
     /\ full.LON[p] < maxLon /\ minLon < full.LON[p]}

\* a deliberately wrong guard, which asks for a pixel in the box only
CropGuardNonEmpty(boundCrds) == boundCrds # {}

\* lines 492-493
CropGuard(boundCrds) ==
  /\ boundCrds # {}
  /\ SetMin({p[1] : p \in boundCrds}) # SetMax({p[1] : p \in boundCrds})
  /\ SetMin({p[2] : p \in boundCrds}) # SetMax({p[2] : p \in boundCrds})

\* fullArrays[b][min0:max0, min1:max1]
Crop(a, min0, max0, min1, max1) ==
  [p \in Idx(max0 - min0, max1 - min1) |-> a[<<p[1] + min0, p[2] + min1>>]]

Clip ==
  /\ pc = "clip"
  /\ \E boundCrds \in {BoundCrds(fullArrays)} :
      \E rows \in {{p[1] : p \in boundCrds}}, cols \in {{p[2] : p \in boundCrds}} :
        IF CropGuard(boundCrds)
        THEN \E min0 \in {SetMin(rows)}, max0 \in {SetMax(rows)},
                min1 \in {SetMin(cols)}, max1 \in {SetMax(cols)} :
               /\ allArrays' = [b \in DOMAIN fullArrays |->
                                  Crop(fullArrays[b], min0, max0, min1, max1)]
               /\ loc' = [min0 |-> min0, max0 |-> max0, min1 |-> min1,
                          max1 |-> max1, nRows |-> max0 - min0,
                          nCols |-> max1 - min1]
               /\ pc' = "masks"
               /\ UNCHANGED fileIdx
        ELSE /\ UNCHANGED <<allArrays, loc>>
             /\ NextFile
  /\ UNCHANGED <<filList, datsWdata, csvFiles, fullArrays,
                 band, bandFiltMean2, bandFiltMAD2, rampArgs, confVals>>

(***************************************************************************)
(* lines 508-566: BAND22 saturation, day flag, water, cloud and background *)
(* masks, and the masked working fields.                                   *)
(***************************************************************************)
\* a deliberately wrong substitution, which keeps BAND22 everywhere
NoSaturate(b22, b21) == b22

\* lines 509-510
Saturate(b22, b21) ==
  [p \in DOMAIN b22 |-> IF b22[p] >= b22saturationVal THEN b21[p] ELSE b22[p]]

\* lines 513-514
DayFlag(solZen) == [p \in DOMAIN solZen |-> IF solZen[p] < 8500 THEN 1 ELSE 0]

\* lines 517-518
WaterMask(landmask) ==
  [p \in DOMAIN landmask |-> IF landmask[p] # 1 THEN waterFlag ELSE 0]

\* lines 521-524
CloudMask(b1, b2, b32) ==
  [p \in DOMAIN b1 |->
     IF \/ (b1[p] + b2[p]) > 900
        \/ b32[p] < 265
        \/ ((b1[p] + b2[p]) > 700 /\ b32[p] < 285)
     THEN cloudFlag ELSE 0]

\* a deliberately wrong order of the sentinels: cloud first, then water
WaterCloudMasked(a, waterMask, cloudMask) ==
  [p \in DOMAIN a |->
     IF waterMask[p] = waterFlag THEN waterFlag
     ELSE IF cloudMask[p] = cloudFlag THEN cloudFlag
     ELSE a[p]]

\* lines 527-537: copy, then water, then cloud
CloudWaterMasked(a, waterMask, cloudMask) ==
  [p \in DOMAIN a |->
     IF cloudMask[p] = cloudFlag THEN cloudFlag
     ELSE IF waterMask[p] = waterFlag THEN waterFlag
     ELSE a[p]]

\* lines 548-554
BgMask(dayFlag, b22, deltaT) ==
  [p \in DOMAIN b22 |->
     IF \/ (dayFlag[p] = 1 /\ b22[p] > 325 * reductionFactor
                           /\ deltaT[p] > 20 * reductionFactor)
        \/ (dayFlag[p] = 0 /\ b22[p] > 310 * reductionFactor
                           /\ deltaT[p] > 10 * reductionFactor)
     THEN bgFlag ELSE 0]

\* lines 556-566
BgMasked(a, bgMask) ==
  [p \in DOMAIN a |-> IF bgMask[p] = bgFlag THEN bgFlag ELSE a[p]]

Masks ==
  /\ pc = "masks"
  /\ \E b22 \in {Saturate(allArrays.BAND22, allArrays.BAND21)},
        dayFlag \in {DayFlag(allArrays.SolarZenith)},
        waterMask \in {WaterMask(allArrays.LANDMASK)},
        cloudMask \in {CloudMask(allArrays.BAND1x1k, allArrays.BAND2x1k,
                                 allArrays.BAND32)} :
      \E b22CWM \in {CloudWaterMasked(b22, waterMask, cloudMask)},
         b31CWM \in {CloudWaterMasked(allArrays.BAND31, waterMask, cloudMask)},
         deltaT \in {[p \in DOMAIN b22 |-> Abs(b22[p] - allArrays.BAND31[p])]} :
       \E deltaTCWM \in {CloudWaterMasked(deltaT, waterMask, cloudMask)},
          bgMask \in {BgMask(dayFlag, b22, deltaT)} :
         /\ allArrays' = [allArrays EXCEPT !.BAND22 = b22]
         /\ loc' = loc @@
              [ dayFlag |-> dayFlag, waterMask |-> waterMask,
                cloudMask |-> cloudMask,
                b22CloudWaterMasked |-> b22CWM,
                b31CloudWaterMasked |-> b31CWM,
                deltaT |-> deltaT,
                deltaTCloudWaterMasked |-> deltaTCWM,
                bgMask |-> bgMask,
                b22bgMask |-> BgMasked(b22CWM, bgMask),
                b31bgMask |-> BgMasked(b31CWM, bgMask),
                deltaTbgMask |-> BgMasked(deltaTCWM, bgMask) ]
  /\ pc' = "filters"
  /\ UNCHANGED <<filList, fileIdx, datsWdata, csvFiles, fullArrays,
                 band, bandFiltMean2, bandFiltMAD2, rampArgs, confVals>>

(***************************************************************************)
(* lines 572-579: background mean and MAD of the four working fields.      *)
(***************************************************************************)
\* lines 577-578
B22bgRej(b22, bgMask) ==
  [p \in DOMAIN b22 |-> IF bgMask[p] # bgFlag THEN bgFlag ELSE b22[p]]

Filters ==
  /\ pc = "filters"
  /\ \E f22 \in {wakelinMeanMADFilter(loc.b22bgMask, maxKsize, minKsize)},
        f31 \in {wakelinMeanMADFilter(loc.b31bgMask, maxKsize, minKsize)},
        fdT \in {wakelinMeanMADFilter(loc.deltaTbgMask, maxKsize, minKsize)},
        b22bgRej \in {B22bgRej(allArrays.BAND22, loc.bgMask)} :
      \E frej \in {wakelinMeanMADFilter(b22bgRej, maxKsize, minKsize)} :
        loc' = loc @@
           [ b22meanFilt |-> Mean2(f22),
             b22MADfilt |-> MAD2(f22),
             b22minusBG |-> [p \in DOMAIN f22 |->
                               QSub(QI(loc.b22CloudWaterMasked[p]), f22[p][1])],
             b31meanFilt |-> Mean2(f31),
             b31MADfilt |-> MAD2(f31),
             deltaTmeanFilt |-> Mean2(fdT),
             deltaTMADFilt |-> MAD2(fdT),
             b22bgRej |-> b22bgRej,
             b22rejMeanFilt |-> Mean2(frej),
             b22rejMADfilt |-> MAD2(frej) ]
  /\ pc' = "tests"
  /\ UNCHANGED <<filList, fileIdx, datsWdata, csvFiles, fullArrays, allArrays,
                 band, bandFiltMean2, bandFiltMAD2, rampArgs, confVals>>

(***************************************************************************)
(* lines 581-638: potential-fire, absolute and context tests, and the day  *)
(* and night fire masks.  Every mask is an array of 0 and 1.               *)
(***************************************************************************)
B2I(b) == IF b THEN 1 ELSE 0

\* lines 582-586
PotFire(dayFlag, b22, deltaT, b2) ==
  [p \in DOMAIN b22 |->
     B2I(\/ (dayFlag[p] = 1 /\ b22[p] > 310 * reductionFactor
                            /\ deltaT[p] > 10 * reductionFactor
                            /\ b2[p] < 300 * increaseFactor)
         \/ (dayFlag[p] = 0 /\ b22[p] > 305 * reductionFactor
                            /\ deltaT[p] > 10 * reductionFactor))]

\* lines 589-592
AbsValTest(dayFlag, b22) ==
  [p \in DOMAIN b22 |->
     B2I(\/ (dayFlag[p] = 1 /\ b22[p] > 360 * reductionFactor)
         \/ (dayFlag[p] = 0 /\ b22[p] > 305 * reductionFactor))]

\* lines 599-601: deltaT > deltaTmeanFilt + 3.5 * deltaTMADFilt
DeltaTMADfire(deltaT, mean, mad) ==
  [p \in DOMAIN deltaT |->
     B2I(QLt(QAdd(mean[p], QMul(Q(7, 2), mad[p])), QI(deltaT[p])))]

\* lines 604-606: deltaT > deltaTmeanFilt + 6
DeltaTfire(deltaT, mean) ==
  [p \in DOMAIN deltaT |-> B2I(QLt(QAdd(mean[p], QI(6)), QI(deltaT[p])))]

\* lines 609-611: b22CloudWaterMasked > b22meanFilt + 3 * b22MADfilt
B22fire(b22CWM, mean, mad) ==
  [p \in DOMAIN b22CWM |->
     B2I(QLt(QAdd(mean[p], QMul(QI(3), mad[p])), QI(b22CWM[p])))]

\* lines 614-615: b31CloudWaterMasked > b31meanFilt + b31MADfilt - 4
B31fire(b31CWM, mean, mad) ==
  [p \in DOMAIN b31CWM |->
     B2I(QLt(QSub(QAdd(mean[p], mad[p]), QI(4)), QI(b31CWM[p])))]

\* lines 618-621: b22rejMADfilt > 5
B22rejFire(rejMad) == [p \in DOMAIN rejMad |-> B2I(QLt(QI(5), rejMad[p]))]

\* lines 624-629
FireLocTentative(t3, t4, t5) == [p \in DOMAIN t3 |-> t3[p] * t4[p] * t5[p]]

FireLocTentativeDay(potFire, tent, b22rejFire, b31fire) ==
  [p \in DOMAIN tent |->
     potFire[p] * tent[p] * B2I(b22rejFire[p] = 1 \/ b31fire[p] = 1)]

\* lines 631-633
DayFires(dayFlag, absValTest, tentDay) ==
  [p \in DOMAIN dayFlag |->
     B2I(dayFlag[p] = 1 /\ (absValTest[p] = 1 \/ tentDay[p] = 1))]

\* a & b on 0/1 operands
BitAnd(a, b) == IF a = 1 /\ b = 1 THEN 1 ELSE 0

\* a | b on 0/1 operands
BitOr(a, b) == IF a = 1 \/ b = 1 THEN 1 ELSE 0

\* lines 636-638.  Python parses (fireLocTentative == 1) | absValTest == 1 as
\* ((fireLocTentative == 1) | absValTest) == 1.
NightFires(dayFlag, absValTest, tent) ==
  [p \in DOMAIN dayFlag |->
     B2I(dayFlag[p] = 0 /\ BitOr(B2I(tent[p] = 1), absValTest[p]) = 1)]

Tests ==
  /\ pc = "tests"
  /\ \E potFire \in {PotFire(loc.dayFlag, allArrays.BAND22, loc.deltaT,
                             allArrays.BAND2x1k)},
        absValTest \in {AbsValTest(loc.dayFlag, allArrays.BAND22)},
        deltaTMADfire \in {DeltaTMADfire(loc.deltaT, loc.deltaTmeanFilt,
                                         loc.deltaTMADFilt)},
        deltaTfire \in {DeltaTfire(loc.deltaT, loc.deltaTmeanFilt)},
        b22fire \in {B22fire(loc.b22CloudWaterMasked, loc.b22meanFilt,
                             loc.b22MADfilt)},
        b31fire \in {B31fire(loc.b31CloudWaterMasked, loc.b31meanFilt,
                             loc.b31MADfilt)},
        b22rejFire \in {B22rejFire(loc.b22rejMADfilt)} :
      \E tent \in {FireLocTentative(deltaTMADfire, deltaTfire, b22fire)} :
        \E tentDay \in {FireLocTentativeDay(potFire, tent, b22rejFire, b31fire)} :
          loc' = loc @@
            [ potFire |-> potFire, absValTest |-> absValTest,
              deltaTMADfire |-> deltaTMADfire, deltaTfire |-> deltaTfire,
              B22fire |-> b22fire, B31fire |-> b31fire,
              B22rejFire |-> b22rejFire,
              fireLocTentative |-> tent,
              fireLocTentativeDay |-> tentDay,
              dayFires |-> DayFires(loc.dayFlag, absValTest, tentDay),
              nightFires |-> NightFires(loc.dayFlag, absValTest, tent) ]
  /\ pc' = "reject"
  /\ UNCHANGED <<filList, fileIdx, datsWdata, csvFiles, fullArrays, allArrays,
                 band, bandFiltMean2, bandFiltMAD2, rampArgs, confVals>>

(***************************************************************************)
(* scipy.ndimage.generic_filter and the counting filters (lines 66-131),   *)
(* and runFilt (lines 145-163).                                            *)
(***************************************************************************)
\* the flattened size x size window generic_filter hands to its function at
\* pixel p of an array a of shape (nr, nc); the default mode is 'reflect'
GFKernel(a, nr, nc, size, p) ==
  [n \in 1 .. size * size |->
     a[<<Reflect(p[1] - (size \div 2) + ((n - 1) \div size), nr),
         Reflect(p[2] - (size \div 2) + ((n - 1) % size), nc)>>]]

IsOne(v) == v = 1
IsBg(v) == v = -3
IsWater(v) == v = -1
IsUw(v) == v = -6

\* lines 66-76: the eight neighbours equal to 1
adjCloud(kernel) ==
  Len(SelectSeq([i \in 1 .. 8 |-> kernel[IF i <= 4 THEN i ELSE i + 1]], IsOne))

adjWater(kernel) ==
  Len(SelectSeq([i \in 1 .. 8 |-> kernel[IF i <= 4 THEN i ELSE i + 1]], IsOne))

CenterOf(kernel, kSize) ==
  kernel[((kSize - 1) \div 2) * kSize + ((kSize - 1) \div 2) + 1]

\* lines 86-99
nValidFilt(kernel, kSize, minK) ==
  IF kSize = minK \/ CenterOf(kernel, kSize) = -4
  THEN Len(SelectSeq([n \in 1 .. kSize * kSize |->
                        IF makeFootprint(kSize)[n] < 0 THEN -5 ELSE kernel[n]],
                     Positive))
  ELSE -4

\* lines 101-109
nRejectBGfireFilt(kernel, kSize, minK) ==
  IF kSize = minK \/ CenterOf(kernel, kSize) = -4
  THEN Len(SelectSeq(kernel, IsBg))
  ELSE -4

\* lines 111-120
nRejectWaterFilt(kernel, kSize, minK) ==
  IF kSize = minK \/ CenterOf(kernel, kSize) = -4
  THEN Len(SelectSeq(kernel, IsWater))
  ELSE -4

\* lines 122-131
nUnmaskedWaterFilt(kernel, kSize, minK) ==
  IF /\ (kSize = minK \/ CenterOf(kernel, kSize) = -4)
     /\ CenterOf(kernel, kSize) \notin {-3, -2, -1}
  THEN Len(SelectSeq(kernel, IsUw))
  ELSE -4

FiltFunc(filtFunc, kernel, kSize, minK) ==
  CASE filtFunc = "nValidFilt" -> nValidFilt(kernel, kSize, minK)
    [] filtFunc = "nRejectBGfireFilt" -> nRejectBGfireFilt(kernel, kSize, minK)
    [] filtFunc = "nRejectWaterFilt" -> nRejectWaterFilt(kernel, kSize, minK)
    [] filtFunc = "nUnmaskedWaterFilt" -> nUnmaskedWaterFilt(kernel, kSize, minK)

\* lines 150-154: bandFilts['bandFilt' + str(kSize)] at pixel p.  Each pass
\* filters the output of the pass before it (filtBand is reassigned).
RECURSIVE BandFilts(_, _, _, _, _, _, _)
BandFilts(a, nr, nc, filtFunc, kSize, minK, p) ==
  FiltFunc(filtFunc,
           GFKernel([q \in DOMAIN a |->
                       IF kSize = minK THEN a[q]
                       ELSE BandFilts(a, nr, nc, filtFunc, kSize - 2, minK, q)],
                    nr, nc, kSize, p),
           kSize, minK)

\* lines 156-161 at pixel p: a cell still at -4 takes the value of the kSize
\* pass, for each kSize in turn
RECURSIVE RunFiltFill(_, _, _, _, _, _, _, _, _)
RunFiltFill(a, nr, nc, filtFunc, kSize, minK, maxK, p, cur) ==
  IF kSize > maxK THEN cur
  ELSE RunFiltFill(a, nr, nc, filtFunc, kSize + 2, minK, maxK, p,
                   IF cur = -4
                   THEN BandFilts(a, nr, nc, filtFunc, kSize, minK, p)
                   ELSE cur)

runFilt(a, filtFunc, minK, maxK) ==
  [p \in DOMAIN a |->
     RunFiltFill(a, NRowsOf(a), NColsOf(a), filtFunc, minK + 2, minK, maxK, p,
                 BandFilts(a, NRowsOf(a), NColsOf(a), filtFunc, minK, minK, p))]

\* generic_filter(waterLoc, adjWater, size=3), lines 666 and 763
NWaterAdj(waterLoc) ==
  [p \in DOMAIN waterLoc |->
     adjWater(GFKernel(waterLoc, NRowsOf(waterLoc), NColsOf(waterLoc), 3, p))]

\* generic_filter(cloudLoc, adjCloud, size=3), line 758
NCloudAdj(cloudLoc) ==
  [p \in DOMAIN cloudLoc |->
     adjCloud(GFKernel(cloudLoc, NRowsOf(cloudLoc), NColsOf(cloudLoc), 3, p))]

(***************************************************************************)
(* lines 644-737: sunglint, desert-boundary and coastal rejection, and the *)
(* final mask allFires.                                                    *)
(***************************************************************************)
\* lines 645-649 for SensorZenith = SensorAzimuth = SolarAzimuth = 0:
\* arccos(cos(SolarZenith)) / 3.141592 * 180, in thousandths of a degree,
\* for the SolarZenith values of the palette (the layer value is used as it
\* is read, as radians)
ThetaG(solZen) ==
  CASE solZen = 4500 -> 71008
    [] solZen = 9000 -> 142016
    [] solZen = 44 -> 1014

\* lines 652-677
SgTest8(thetaG) == [p \in DOMAIN thetaG |-> B2I(thetaG[p] < 2000)]

SgTest9(thetaG, b1, b2, b7) ==
  [p \in DOMAIN thetaG |->
     B2I(thetaG[p] < 8000 /\ b1[p] > 100 /\ b2[p] > 200 /\ b7[p] > 120)]

WaterLoc(waterMask) == [p \in DOMAIN waterMask |-> B2I(waterMask[p] = waterFlag)]

ClampNeg(a) == [p \in DOMAIN a |-> IF a[p] < 0 THEN 0 ELSE a[p]]

SgTest10(thetaG, nWaterAdj, nRejectedWater) ==
  [p \in DOMAIN thetaG |->
     B2I(thetaG[p] < 12000 /\ (nWaterAdj[p] + nRejectedWater[p]) > 0)]

SgAll(t8, t9, t10) ==
  [p \in DOMAIN t8 |-> B2I(t8[p] = 1 \/ t9[p] = 1 \/ t10[p] = 1)]

\* lines 687-718
DbAll(nRejectedBG, nValid, b2, rejMean, rejMAD, b22CWM) ==
  [p \in DOMAIN b2 |->
     B2I(nRejectedBG[p] * 10 > nValid[p])
     * B2I(nRejectedBG[p] >= 4)
     * B2I(b2[p] > 150)
     * B2I(QLt(rejMean[p], QI(345)))
     * B2I(QLt(rejMAD[p], QI(3)))
     * B2I(QLt(QI(b22CWM[p]), QAdd(rejMean[p], QMul(QI(6), rejMAD[p]))))]

\* integer arrays divided element by element: the quotient is floored, and
\* a division by zero gives 0
IntDiv(a, b) == IF b = 0 THEN 0 ELSE a \div b

\* the normalised difference index, (B2 - B1) / (B2 + B1)
NdviDifference(b1, b2) ==
  [p \in DOMAIN b1 |-> IntDiv(b2[p] - b1[p], b2[p] + b1[p])]

\* line 723
Ndvi(b1, b2) == [p \in DOMAIN b1 |-> IntDiv(b2[p] + b1[p], b2[p] + b1[p])]

\* lines 724-728
UnmaskedWater(ndvi, b7, b2, bgMask) ==
  [p \in DOMAIN ndvi |->
     IF bgMask[p] = bgFlag THEN bgFlag
     ELSE IF ndvi[p] < 0 /\ b7[p] < 50 /\ b2[p] < 150 THEN -6
     ELSE 0]

\* lines 730-732
RejUnmaskedWater(absValTest, Nuw) ==
  [p \in DOMAIN Nuw |-> B2I(absValTest[p] = 0 /\ Nuw[p] > 0)]

\* a deliberately wrong variant, without the rejections
AllFiresNoReject(dayFires, nightFires, sgAll, dbAll, rejUnmaskedWater) ==
  [p \in DOMAIN dayFires |-> dayFires[p] + nightFires[p]]

\* lines 735-737
AllFires(dayFires, nightFires, sgAll, dbAll, rejUnmaskedWater) ==
  [p \in DOMAIN dayFires |->
     IF sgAll[p] = 1 \/ dbAll[p] = 1 \/ rejUnmaskedWater[p] = 1 THEN 0
     ELSE dayFires[p] + nightFires[p]]

Reject ==
  /\ pc = "reject"
  /\ \E thetaG \in {[p \in DOMAIN loc.dayFlag |-> ThetaG(allArrays.SolarZenith[p])]},
        nWaterAdj \in {NWaterAdj(WaterLoc(loc.waterMask))},
        nRejectedWater \in {ClampNeg(runFilt(loc.waterMask, "nRejectWaterFilt",
                                             minKsize, maxKsize))},
        nValid \in {runFilt(loc.b22bgMask, "nValidFilt", minKsize, maxKsize)},
        nRejectedBG \in {ClampNeg(runFilt(loc.bgMask, "nRejectBGfireFilt",
                                          minKsize, maxKsize))},
        ndvi \in {Ndvi(allArrays.BAND1x1k, allArrays.BAND2x1k)} :
      \E sgAll \in {SgAll(SgTest8(thetaG),
                          SgTest9(thetaG, allArrays.BAND1x1k, allArrays.BAND2x1k,
                                  allArrays.BAND7x1k),
                          SgTest10(thetaG, nWaterAdj, nRejectedWater))},
         dbAll \in {DbAll(nRejectedBG, nValid, allArrays.BAND2x1k,
                          loc.b22rejMeanFilt, loc.b22rejMADfilt,
                          loc.b22CloudWaterMasked)},
         unmaskedWater \in {UnmaskedWater(ndvi, allArrays.BAND7x1k,
                                          allArrays.BAND2x1k, loc.bgMask)} :
        \E Nuw \in {runFilt(unmaskedWater, "nUnmaskedWaterFilt",
                            minKsize, maxKsize)} :
          \E rejUW \in {RejUnmaskedWater(loc.absValTest, Nuw)} :
            loc' = loc @@
              [ thetaG |-> thetaG, nWaterAdj |-> nWaterAdj,
                nRejectedWater |-> nRejectedWater, nValid |-> nValid,
                nRejectedBG |-> nRejectedBG, sgAll |-> sgAll, dbAll |-> dbAll,
                ndvi |-> ndvi, unmaskedWater |-> unmaskedWater, Nuw |-> Nuw,
                rejUnmaskedWater |-> rejUW,
                allFires |-> AllFires(loc.dayFires, loc.nightFires, sgAll,
                                      dbAll, rejUW) ]
  /\ pc' = "frp"
  /\ UNCHANGED <<filList, fileIdx, datsWdata, csvFiles, fullArrays, allArrays,
                 band, bandFiltMean2, bandFiltMAD2, rampArgs, confVals>>

(***************************************************************************)
(* Natural numbers of any size, as sequences of base-10000 digits, least   *)
(* significant first: the eighth powers of line 745-746 exceed 2^31.       *)
(***************************************************************************)
BigBase == 10000

RECURSIVE BigOf(_)
BigOf(n) == IF n < BigBase THEN <<n>> ELSE <<n % BigBase>> \o BigOf(n \div BigBase)

RECURSIVE BigCarry(_, _, _)
BigCarry(cols, i, c) ==
  IF i > Len(cols) THEN (IF c = 0 THEN <<>> ELSE BigOf(c))
  ELSE <<(cols[i] + c) % BigBase>> \o BigCarry(cols, i + 1, (cols[i] + c) \div BigBase)

BigDigit(a, k) == IF k \in 1 .. Len(a) THEN a[k] ELSE 0

BigAdd(a, b) ==
  BigCarry([k \in 1 .. (IF Len(a) > Len(b) THEN Len(a) ELSE Len(b)) |->
              BigDigit(a, k) + BigDigit(b, k)], 1, 0)

BigMul(a, b) ==
  BigCarry([k \in 1 .. Len(a) + Len(b) - 1 |->
              SumRange([i \in 1 .. Len(a) |-> a[i] * BigDigit(b, k + 1 - i)],
                       1, Len(a))], 1, 0)

RECURSIVE BigLtFrom(_, _, _)
BigLtFrom(a, b, i) ==
  IF i = 0 THEN FALSE
  ELSE IF BigDigit(a, i) # BigDigit(b, i) THEN BigDigit(a, i) < BigDigit(b, i)
  ELSE BigLtFrom(a, b, i - 1)

BigLt(a, b) == BigLtFrom(a, b, IF Len(a) > Len(b) THEN Len(a) ELSE Len(b))

BigSq(a) == BigMul(a, a)
BigPow8(a) == BigSq(BigSq(BigSq(a)))

(***************************************************************************)
(* lines 742-750: frpMWabs = 4.34e-19 * (T^8 - bg^8) * potFire, where      *)
(* T = allFires * BAND22 and bg = allFires * b22meanFilt.  With bg = s/d   *)
(* the value is                                                            *)
(*        434 * potFire * ((T*d)^8 - s^8) / (10^21 * d^8),                 *)
(* kept as the two eighth powers and the denominator.                      *)
(***************************************************************************)
\* a deliberately wrong variant, without the factor potFire
FrpMWnoPot(allFires, b22, mean, potFire) ==
  [ hi  |-> BigPow8(BigOf(Abs(allFires * b22 * mean[2]))),
    lo  |-> BigPow8(BigOf(Abs(allFires * mean[1]))),
    d8  |-> BigPow8(BigOf(mean[2])),
    pot |-> 1 ]

FrpMWabs(allFires, b22, mean, potFire) ==
  [ hi  |-> BigPow8(BigOf(Abs(allFires * b22 * mean[2]))),
    lo  |-> BigPow8(BigOf(Abs(allFires * mean[1]))),
    d8  |-> BigPow8(BigOf(mean[2])),
    pot |-> potFire ]

\* 0 < frpMWabs
FrpPositive(f) == f.pot > 0 /\ BigLt(f.lo, f.hi)

Ten7 == BigOf(10000000)

\* frpMWabs < 3900, that is 434 * pot * (hi - lo) < 3900 * 10^21 * d8
FrpBelow(f, limit) ==
  \/ f.pot = 0
  \/ ~BigLt(f.lo, f.hi)
  \/ BigLt(BigMul(BigOf(434 * f.pot), f.hi),
           BigAdd(BigMul(BigOf(434 * f.pot), f.lo),
                  BigMul(BigMul(BigOf(limit), f.d8),
                         BigMul(Ten7, BigMul(Ten7, Ten7)))))

\* a deliberately wrong selection, without the upper limit
GateNoLimit(allFires, frp) ==
  [p \in DOMAIN allFires |-> allFires[p] = 1 /\ FrpPositive(frp[p])]

\* the selection (allFires == 1) & (0 < frpMWabs) & (frpMWabs < 3900)
Gate(allFires, frp) ==
  [p \in DOMAIN allFires |->
     allFires[p] = 1 /\ FrpPositive(frp[p]) /\ FrpBelow(frp[p], 3900)]

SetMaxOf(a) == SetMax({a[p] : p \in DOMAIN a})

Frp ==
  /\ pc = "frp"
  /\ IF SetMaxOf(loc.allFires) > 0
     THEN /\ datsWdata' = Append(datsWdata, fileIdx)
          /\ \E frp \in {[p \in DOMAIN loc.allFires |->
                            FrpMWabs(loc.allFires[p], allArrays.BAND22[p],
                                     loc.b22meanFilt[p], loc.potFire[p])]} :
               loc' = loc @@ [ frpMWabs |-> frp,
                               gate |-> Gate(loc.allFires, frp) ]
          /\ pc' = "confidence"
          /\ UNCHANGED fileIdx
     ELSE /\ UNCHANGED <<datsWdata, loc>>
          /\ NextFile
  /\ UNCHANGED <<filList, csvFiles, fullArrays, allArrays,
                 band, bandFiltMean2, bandFiltMAD2, rampArgs, confVals>>

(***************************************************************************)
(* lines 755-804: detection confidence.                                    *)
(***************************************************************************)
CloudLoc(cloudMask) == [p \in DOMAIN cloudMask |-> B2I(cloudMask[p] = cloudFlag)]

\* a / b for float arrays: a zero divisor gives inf, -inf or nan
PyDiv(a, b) ==
  IF b[1] = 0
  THEN (IF a[1] > 0 THEN PPInf ELSE IF a[1] < 0 THEN PNInf ELSE PNaN)
  ELSE PFlt(Q(a[1] * b[2], a[2] * b[1]))

\* line 766
Z4(b22minusBG, b22MADfilt) ==
  [p \in DOMAIN b22minusBG |-> PyDiv(b22minusBG[p], b22MADfilt[p])]

\* line 769
ZDeltaT(deltaTbgMask, deltaTmeanFilt, deltaTMADFilt) ==
  [p \in DOMAIN deltaTbgMask |->
     PyDiv(QSub(QI(deltaTbgMask[p]), deltaTmeanFilt[p]), deltaTMADFilt[p])]

\* the pixels a boolean mask selects, in row-major order
RowMajor(nr, nc) == [i \in 1 .. nr * nc |-> <<(i - 1) \div nc, (i - 1) % nc>>]

Selected(mask) ==
  LET In(p) == mask[p]
  IN  SelectSeq(RowMajor(NRowsOf(mask), NColsOf(mask)), In)

OneMinus(c) == [i \in 1 .. Len(c) |-> QSub(QI(1), c[i])]

\* a deliberately wrong combiner: the arithmetic mean of the scores
Amean(scores) ==
  [ prod |-> QMul(IF Len(scores) = 5
                  THEN QAdd(QAdd(QAdd(scores[1], scores[2]),
                                 QAdd(scores[3], scores[4])), scores[5])
                  ELSE QAdd(QAdd(scores[1], scores[2]), scores[3]),
                  Q(1, Len(scores))),
    root |-> 1 ]

\* scipy.stats.gmean of n scores: the n-th root of their product, kept as
\* the product and n
Gmean(scores) ==
  [ prod |-> IF Len(scores) = 5
             THEN QMul(QMul(QMul(scores[1], scores[2]),
                            QMul(scores[3], scores[4])), scores[5])
             ELSE QMul(QMul(scores[1], scores[2]), scores[3]),
    root |-> Len(scores) ]

\* lines 796-797
DetnConfDay(C1day, C2, C3, C4, C5) ==
  [i \in 1 .. Len(C2) |-> Gmean(<<C1day[i], C2[i], C3[i], C4[i], C5[i]>>)]

\* lines 799-800
DetnConfNight(C1night, C2, C3) ==
  [i \in 1 .. Len(C2) |-> Gmean(<<C1night[i], C2[i], C3[i]>>)]

IsNight(d) == d = 0

\* a deliberately wrong assignment, which never raises
DetnConfNeverRaises(firesDayFlag) == FALSE

\* lines 802-804.  detnConf[firesDayFlag == 0] = detnConfNight assigns the
\* whole of detnConfNight to the night positions: the shapes agree only when
\* every selected pixel is a night pixel, otherwise numpy raises ValueError.
DetnConfRaises(firesDayFlag) ==
  /\ Len(SelectSeq(firesDayFlag, IsNight)) > 0
  /\ Len(SelectSeq(firesDayFlag, IsNight)) < Len(firesDayFlag)

DetnConf(firesDayFlag, detnConfDay, detnConfNight) ==
  IF Len(SelectSeq(firesDayFlag, IsNight)) > 0 THEN detnConfNight ELSE detnConfDay

Confidence ==
  /\ pc = "confidence"
  /\ \E fires \in {Selected(loc.gate)},
        nCloudAdj \in {NCloudAdj(CloudLoc(loc.cloudMask))},
        nWaterAdj \in {NWaterAdj(WaterLoc(loc.waterMask))},
        z4 \in {Z4(loc.b22minusBG, loc.b22MADfilt)},
        zDeltaT \in {ZDeltaT(loc.deltaTbgMask, loc.deltaTmeanFilt,
                             loc.deltaTMADFilt)} :
      \E firesDayFlag \in {[i \in 1 .. Len(fires) |-> loc.dayFlag[fires[i]]]},
         C1day \in {rampFn([i \in 1 .. Len(fires) |->
                              PFlt(QI(loc.b22bgMask[fires[i]]))],
                           PInt(310), PInt(340))},
         C1night \in {rampFn([i \in 1 .. Len(fires) |->
                                PFlt(QI(loc.b22bgMask[fires[i]]))],
                             PInt(305), PInt(320))},
         C2 \in {rampFn([i \in 1 .. Len(fires) |-> z4[fires[i]]],
                        PFlt(Q(5, 2)), PInt(6))},
         C3 \in {rampFn([i \in 1 .. Len(fires) |-> zDeltaT[fires[i]]],
                        PInt(3), PInt(6))},
         C4 \in {OneMinus(rampFn([i \in 1 .. Len(fires) |->
                                    PInt(nCloudAdj[fires[i]])],
                                 PInt(0), PInt(6)))},
         C5 \in {OneMinus(rampFn([i \in 1 .. Len(fires) |->
                                    PInt(nWaterAdj[fires[i]])],
                                 PInt(0), PInt(6)))} :
        /\ loc' = loc @@
             [ nCloudAdj |-> nCloudAdj, nWaterAdjConf |-> nWaterAdj,
               z4 |-> z4, zDeltaT |-> zDeltaT, fires |-> fires,
               firesDayFlag |-> firesDayFlag,
               C1day |-> C1day, C1night |-> C1night, C2 |-> C2, C3 |-> C3,
               C4 |-> C4, C5 |-> C5,
               detnConf |-> DetnConf(firesDayFlag,
                                     DetnConfDay(C1day, C2, C3, C4, C5),
                                     DetnConfNight(C1night, C2, C3)) ]
        /\ pc' = IF DetnConfRaises(firesDayFlag) THEN "raised" ELSE "export"
  /\ UNCHANGED <<filList, fileIdx, datsWdata, csvFiles, fullArrays, allArrays,
                 band, bandFiltMean2, bandFiltMAD2, rampArgs, confVals>>

(***************************************************************************)
(* lines 843-871: one record per selected pixel, written as one CSV file.  *)
(***************************************************************************)
\* a deliberately wrong line number, which is the row of the crop
FRPlineOfCrop(FRPy, min0) == FRPy

\* lines 845 and 847
FRPsample(FRPx, min1) == FRPx + min1
FRPline(FRPy, min0) == FRPy + min0

Record(i) ==
  LET p == loc.fires[i]
  IN  [ FRPline |-> FRPline(p[1], loc.min0),
        FRPsample |-> FRPsample(p[2], loc.min1),
        FRPlats |-> allArrays.LAT[p],
        FRPlons |-> allArrays.LON[p],
        FRPT21 |-> allArrays.BAND22[p],
        FRPT31 |-> allArrays.BAND31[p],
        FRPMeanT21 |-> loc.b22meanFilt[p],
        FRPMeanT31 |-> loc.b31meanFilt[p],
        FRPMeanDT |-> loc.deltaTmeanFilt[p],
        FRPMADT21 |-> loc.b22MADfilt[p],
        FRPMADT31 |-> loc.b31MADfilt[p],
        FRP_MAD_DT |-> loc.deltaTMADFilt[p],
        FRPpower |-> loc.frpMWabs[p],
        FRP_AdjCloud |-> loc.nCloudAdj[p],
        FRP_AdjWater |-> loc.nWaterAdjConf[p],
        FRP_NumValid |-> loc.nValid[p],
        FRP_confidence |-> loc.detnConf[i] ]

Export ==
  /\ pc = "export"
  /\ csvFiles' = Append(csvFiles,
                        [file |-> fileIdx,
                         rows |-> [i \in 1 .. Len(loc.fires) |-> Record(i)]])
  /\ NextFile
  /\ UNCHANGED <<filList, datsWdata, fullArrays, allArrays, loc,
                 band, bandFiltMean2, bandFiltMAD2, rampArgs, confVals>>

(***************************************************************************)
(* wakelinMeanMADFilter on its own: one call on a small field.             *)
(***************************************************************************)
FiltCols == 3

FiltValues == {-4, -3, -1, 290, 300}

\* fields of one row, and small square fields
FiltBands ==
  [Idx(1, FiltCols) -> FiltValues] \cup [Idx(2, 2) -> {-3, 290, 300}]

InitFilter ==
  /\ pc = "filter"
  /\ band \in FiltBands
  /\ bandFiltMean2 = <<>> /\ bandFiltMAD2 = <<>>
  /\ rampArgs = <<>> /\ confVals = <<>>
  /\ filList = <<>> /\ fileIdx = 1 /\ datsWdata = <<>> /\ csvFiles = <<>>
  /\ fullArrays = EmptyLoc /\ allArrays = EmptyLoc /\ loc = EmptyLoc

RunFilter ==
  /\ pc = "filter"
  /\ \E f \in {wakelinMeanMADFilter(band, maxKsize, minKsize)} :
       /\ bandFiltMean2' = Mean2(f)
       /\ bandFiltMAD2' = MAD2(f)
  /\ pc' = "filtered"
  /\ UNCHANGED <<filList, fileIdx, datsWdata, csvFiles, fullArrays, allArrays,
                 loc, band, rampArgs, confVals>>

SpecFilter == InitFilter /\ [][RunFilter]_vars

(***************************************************************************)
(* makeFootprint on its own: one call for an odd window size.              *)
(***************************************************************************)
MaxFpK == 105

FootprintSizes == {k \in minKsize .. MaxFpK : k % 2 = 1}

InitFootprint ==
  /\ pc = "footprint"
  /\ loc \in [kSize : FootprintSizes]
  /\ band = <<>> /\ bandFiltMean2 = <<>> /\ bandFiltMAD2 = <<>>
  /\ rampArgs = <<>> /\ confVals = <<>>
  /\ filList = <<>> /\ fileIdx = 1 /\ datsWdata = <<>> /\ csvFiles = <<>>
  /\ fullArrays = EmptyLoc /\ allArrays = EmptyLoc

RunFootprint ==
  /\ pc = "footprint"
  /\ loc' = [kSize |-> loc.kSize, fp |-> makeFootprint(loc.kSize)]
  /\ pc' = "footprinted"
  /\ UNCHANGED <<filList, fileIdx, datsWdata, csvFiles, fullArrays, allArrays,
                 band, bandFiltMean2, bandFiltMAD2, rampArgs, confVals>>

SpecFootprint == InitFootprint /\ [][RunFootprint]_vars

(***************************************************************************)
(* rampFn on its own: one call on a short band.  A band is a numpy array,  *)
(* all of its elements integers or all of them floats.                     *)
(***************************************************************************)
MaxRampLen == 2

IntVals == {PInt(-3), PInt(0), PInt(3), PInt(6), PInt(8)}

FloatVals == {PFlt(QI(-3)), PFlt(Q(5, 2)), PFlt(QI(3)), PFlt(Q(17, 4)), PFlt(QI(6)),
              PNaN, PPInf, PNInf}

SeqsUpTo(S, n) == UNION {[1 .. k -> S] : k \in 1 .. n}

RampCalls ==
  [bnd : SeqsUpTo(IntVals, MaxRampLen), rampMin : {PInt(0)}, rampMax : {PInt(6)}]
  \cup [bnd : SeqsUpTo(FloatVals, MaxRampLen), rampMin : {PFlt(Q(5, 2))},
        rampMax : {PInt(6)}]

InitRamp ==
  /\ pc = "ramp"
  /\ rampArgs \in RampCalls
  /\ confVals = <<>>
  /\ band = <<>> /\ bandFiltMean2 = <<>> /\ bandFiltMAD2 = <<>>
  /\ filList = <<>> /\ fileIdx = 1 /\ datsWdata = <<>> /\ csvFiles = <<>>
  /\ fullArrays = EmptyLoc /\ allArrays = EmptyLoc /\ loc = EmptyLoc

RunRamp ==
  /\ pc = "ramp"
  /\ confVals' = rampFn(rampArgs.bnd, rampArgs.rampMin, rampArgs.rampMax)
  /\ pc' = "ramped"
  /\ UNCHANGED <<filList, fileIdx, datsWdata, csvFiles, fullArrays, allArrays,
                 loc, band, bandFiltMean2, bandFiltMAD2, rampArgs>>

SpecRamp == InitRamp /\ [][RunRamp]_vars

(***************************************************************************)
(* The cascade run a second time on the same granule, with the pixels of   *)
(* its final fire mask marked as background candidates as well.            *)
(***************************************************************************)
MaskFields ==
  {"min0", "max0", "min1", "max1", "nRows", "nCols", "dayFlag", "waterMask",
   "cloudMask", "b22CloudWaterMasked", "b31CloudWaterMasked", "deltaT",
   "deltaTCloudWaterMasked"}

\* lines 548-554, and the fires of the first run
BgMaskWithFires(bgMask, allFires) ==
  [p \in DOMAIN bgMask |-> IF allFires[p] >= 1 THEN bgFlag ELSE bgMask[p]]

Remask ==
  /\ pc = "frp"
  /\ "firstFires" \notin DOMAIN loc
  /\ \E bgMask \in {BgMaskWithFires(loc.bgMask, loc.allFires)} :
       loc' = [k \in MaskFields |-> loc[k]] @@
              [ bgMask |-> bgMask,
                b22bgMask |-> BgMasked(loc.b22CloudWaterMasked, bgMask),
                b31bgMask |-> BgMasked(loc.b31CloudWaterMasked, bgMask),
                deltaTbgMask |-> BgMasked(loc.deltaTCloudWaterMasked, bgMask),
                firstFires |-> loc.allFires ]
  /\ pc' = "filters"
  /\ UNCHANGED <<filList, fileIdx, datsWdata, csvFiles, fullArrays, allArrays,
                 band, bandFiltMean2, bandFiltMAD2, rampArgs, confVals>>

NextRerun ==
  \/ Open
  \/ Clip
  \/ Masks
  \/ Filters
  \/ Tests
  \/ Reject
  \/ Remask

SpecRerun == Init /\ [][NextRerun]_vars

Next ==
  \/ Open
  \/ Clip
  \/ Masks
  \/ Filters
  \/ Tests
  \/ Reject
  \/ Frp
  \/ Confidence
  \/ Export

Spec == Init /\ [][Next]_vars

(***************************************************************************)
(* Properties.                                                             *)
(***************************************************************************)
\* the smallest window of kSize, kSize + 2, ..., maxK with enough valid
\* neighbours gives the statistics; -4 if there is none
RECURSIVE RefWindow(_, _, _, _)
RefWindow(bm, p, kSize, maxK) ==
  IF kSize > maxK THEN <<QI(-4), QI(-4)>>
  ELSE IF EnoughNghbrs(Len(Nghbrs(bm, p[1] + bm[4], p[2] + bm[4], kSize)), kSize)
  THEN KernelStats(Nghbrs(bm, p[1] + bm[4], p[2] + bm[4], kSize), kSize)
  ELSE RefWindow(bm, p, kSize + 2, maxK)

RefFilter(b, p) ==
  RefWindow(<<b, NRowsOf(b), NColsOf(b), (maxKsize - 1) \div 2>>, p, minKsize, maxKsize)

\* C1: wakelinMeanMADFilter equals the reference adaptive algorithm: at every
\* pixel whose field value is not -1 or -2, Mean and MAD are the statistics
\* of the smallest window in 5, 7, ..., 21 with enough valid neighbours, and
\* -4 only if no window has enough.
C1_FilterIsReference ==
  pc = "filtered" =>
    \A p \in DOMAIN band :
      band[p] \notin {-1, -2} =>
        <<bandFiltMean2[p], bandFiltMAD2[p]>> = RefFilter(band, p)

\* ramp(v, a, b) as a rule for one element
RampRule(v, a, b) ==
  IF PyGe(v, b) THEN QI(1)
  ELSE IF PyLt(a, v) THEN Q((v.q[1] * a.q[2] - a.q[1] * v.q[2]) * b.q[2] * a.q[2],
                            (b.q[1] * a.q[2] - a.q[1] * b.q[2]) * v.q[2] * a.q[2])
  ELSE QI(0)

\* C4: rampFn returns for each element v of band 0 if v <= a, (v-a)/(b-a) if
\* a < v < b and 1 if v >= b, whatever the other elements are, for integer
\* inputs too.
C4_RampPerElement ==
  pc = "ramped" =>
    \A i \in 1 .. Len(confVals) :
      rampArgs.bnd[i].ty # "nan" =>
        confVals[i] = RampRule(rampArgs.bnd[i], rampArgs.rampMin, rampArgs.rampMax)

Rows == IF Len(csvFiles) = 0 THEN <<>> ELSE csvFiles[Len(csvFiles)].rows

\* the batch has ended and its last granule wrote a file
Emitted ==
  /\ pc = "done"
  /\ Len(csvFiles) > 0
  /\ csvFiles[Len(csvFiles)].file = Len(filList)

\* C2: every emitted record has 0 < FRP < 3900 and 0 <= confidence <= 1
\* (the confidence is the root-th root of prod, so prod lies in [0, 1]).
C2_RecordRanges ==
  \A f \in 1 .. Len(csvFiles) : \A i \in 1 .. Len(csvFiles[f].rows) :
    LET r == csvFiles[f].rows[i]
    IN  /\ r.FRPpower.pot > 0 /\ BigLt(r.FRPpower.lo, r.FRPpower.hi)
        /\ FrpBelow(r.FRPpower, 3900)
        /\ QLe(QI(0), r.FRP_confidence.prod)
        /\ QLe(r.FRP_confidence.prod, QI(1))

\* a record of a pixel whose background MAD is 0, whose z-scores are
\* infinite and nan
C2_Witness ==
  /\ Emitted
  /\ \E i \in 1 .. Len(Rows) :
       /\ Rows[i].FRPMADT21 = QI(0)
       /\ loc.z4[loc.fires[i]].ty = "pinf"
       /\ loc.zDeltaT[loc.fires[i]].ty = "nan"

\* C3: for every selected fire pixel a record is written whose confidence
\* is the geometric mean of that pixel's own sub-scores, five by day and
\* three by night, in granules that mix day and night fires too.
C3_ConfidenceIsOwnGmean ==
  (pc \in {"raised", "done"} /\ "fires" \in DOMAIN loc) =>
    /\ Len(csvFiles) > 0
    /\ Len(Rows) = Len(loc.fires)
    /\ \A i \in 1 .. Len(Rows) :
         Rows[i].FRP_confidence =
           IF loc.firesDayFlag[i] = 1
           THEN Gmean(<<loc.C1day[i], loc.C2[i], loc.C3[i], loc.C4[i], loc.C5[i]>>)
           ELSE Gmean(<<loc.C1night[i], loc.C2[i], loc.C3[i]>>)

\* the z-scores of a record's pixel, from the record's own columns and the
\* pixel's deltaT
RowZ4(r) == PyDiv(QSub(QI(r.FRPT21), r.FRPMeanT21), r.FRPMADT21)

RowZDeltaT(r) ==
  PyDiv(QSub(QI(Abs(r.FRPT21 - r.FRPT31)), r.FRPMeanDT), r.FRP_MAD_DT)

StrongDayFire(i) ==
  /\ loc.firesDayFlag[i] = 1
  /\ loc.waterMask[loc.fires[i]] = 0
  /\ Rows[i].FRPT21 >= 340
  /\ PyGe(RowZ4(Rows[i]), PInt(6))
  /\ PyGe(RowZDeltaT(Rows[i]), PInt(6))
  /\ Rows[i].FRP_AdjCloud = 0
  /\ Rows[i].FRP_AdjWater = 0

\* C5: an emitted day land fire with mid-IR temperature >= 340 K, both
\* z-scores >= 6 and no adjacent cloud or water has all five sub-scores 1
\* and confidence 1.
C5_StrongFireConfidenceOne ==
  Emitted =>
    \A i \in 1 .. Len(Rows) :
      StrongDayFire(i) =>
        /\ loc.C1day[i] = QI(1) /\ loc.C2[i] = QI(1) /\ loc.C3[i] = QI(1)
        /\ loc.C4[i] = QI(1) /\ loc.C5[i] = QI(1)
        /\ Rows[i].FRP_confidence.prod = QI(1)

\* C6: a pixel whose mid-IR background Mean is -4 is never emitted.
C6_NoRecordWithoutBackground ==
  \A f \in 1 .. Len(csvFiles) : \A i \in 1 .. Len(csvFiles[f].rows) :
    csvFiles[f].rows[i].FRPMeanT21 # QI(-4)

\* the potential-fire test of a record's pixel, from the arrays
PotentialFire(p) ==
  IF allArrays.SolarZenith[p] < 8500
  THEN /\ allArrays.BAND22[p] > 310 * reductionFactor
       /\ Abs(allArrays.BAND22[p] - allArrays.BAND31[p]) > 10 * reductionFactor
       /\ allArrays.BAND2x1k[p] < 300 * (2 - reductionFactor)
  ELSE /\ allArrays.BAND22[p] > 305 * reductionFactor
       /\ Abs(allArrays.BAND22[p] - allArrays.BAND31[p]) > 10 * reductionFactor

\* C7: every emitted fire pixel passes the potential-fire test; a pixel of
\* the final mask that fails it is not emitted, absolute test or not.
C7_EmittedArePotential ==
  Emitted =>
    /\ \A i \in 1 .. Len(Rows) : PotentialFire(loc.fires[i])
    /\ \A p \in DOMAIN loc.allFires :
         (loc.allFires[p] = 1 /\ ~PotentialFire(p)) =>
            \A i \in 1 .. Len(Rows) : loc.fires[i] # p

\* a pixel of the final mask that passed the absolute test and fails the
\* potential test, in a granule that emits another pixel
C7_Witness ==
  /\ Emitted
  /\ Len(Rows) > 0
  /\ \E p \in DOMAIN loc.allFires :
       loc.allFires[p] = 1 /\ loc.absValTest[p] = 1 /\ ~PotentialFire(p)

\* C8: the final fire mask holds no pixel for which a sunglint test, all
\* six desert-boundary conditions or the coastal condition holds, pixels
\* that passed the absolute test included.
C8_RejectedNotInFinalMask ==
  "allFires" \in DOMAIN loc =>
    \A p \in DOMAIN loc.allFires :
      (\/ loc.sgAll[p] = 1
       \/ loc.dbAll[p] = 1
       \/ loc.rejUnmaskedWater[p] = 1
       \/ ThetaG(allArrays.SolarZenith[p]) < 2000) => loc.allFires[p] = 0

\* a hot pixel that passed the absolute test, with a glint angle below 2
\* degrees, and is not in the final mask
C8_Witness ==
  /\ "allFires" \in DOMAIN loc
  /\ \E p \in DOMAIN loc.allFires :
       /\ loc.dayFires[p] = 1 /\ loc.absValTest[p] = 1
       /\ loc.thetaG[p] < 2000
       /\ loc.allFires[p] = 0

\* C9: before the rejections the mask is, by day, absolute or (potential and
\* tests 3, 4, 5 and (6 or 7)), by night (tests 3, 4, 5) or absolute; every
\* cell of dayFires, nightFires and their sum is 0 or 1, and no pixel is in
\* both.
C9_FireMaskFormula ==
  "dayFires" \in DOMAIN loc =>
    \A p \in DOMAIN loc.dayFires :
      LET day == loc.dayFlag[p] = 1
          tentative == /\ loc.deltaTMADfire[p] = 1
                       /\ loc.deltaTfire[p] = 1
                       /\ loc.B22fire[p] = 1
      IN  /\ loc.dayFires[p] =
               B2I(day /\ (\/ loc.absValTest[p] = 1
                           \/ (/\ loc.potFire[p] = 1
                               /\ tentative
                               /\ (loc.B22rejFire[p] = 1 \/ loc.B31fire[p] = 1))))
          /\ loc.nightFires[p] = B2I(~day /\ (tentative \/ loc.absValTest[p] = 1))
          /\ loc.dayFires[p] + loc.nightFires[p] \in {0, 1}
          /\ ~(loc.dayFires[p] = 1 /\ loc.nightFires[p] = 1)
          /\ ("allFires" \in DOMAIN loc => loc.allFires[p] \in {0, 1})

\* a night fire by the absolute test alone and a day fire by the context
\* tests alone, in one granule
C9_Witness ==
  /\ "dayFires" \in DOMAIN loc
  /\ \E p \in DOMAIN loc.dayFires :
       loc.nightFires[p] = 1 /\ loc.fireLocTentative[p] = 0
  /\ \E q \in DOMAIN loc.dayFires :
       loc.dayFires[q] = 1 /\ loc.absValTest[q] = 0

\* the 5 x 5 window of p holds a pixel q with R_swir < 50 and R_vis2 < 150
\* that is not a background candidate
WaterLikeNeighbour(p) ==
  \E q \in DOMAIN loc.bgMask :
    /\ q # p
    /\ Abs(q[1] - p[1]) <= 2 /\ Abs(q[2] - p[2]) <= 2
    /\ allArrays.BAND7x1k[q] < 50 /\ allArrays.BAND2x1k[q] < 150
    /\ loc.bgMask[q] # bgFlag

FiltBm == <<band, NRowsOf(band), NColsOf(band), (maxKsize - 1) \div 2>>

OddKs == {k \in minKsize .. maxKsize : (k - minKsize) % 2 = 0}

NghbrsAt(p, k) == Nghbrs(FiltBm, p[1] + FiltBm[4], p[2] + FiltBm[4], k)

\* C11: at every pixel Mean = -4 exactly when MAD = -4, and when they are
\* not -4 both are non-negative and are the statistics of one and the same
\* window size.
C11_MeanAndMADTogether ==
  pc = "filtered" =>
    \A p \in DOMAIN band :
      /\ (bandFiltMean2[p] = QI(-4)) <=> (bandFiltMAD2[p] = QI(-4))
      /\ bandFiltMean2[p] # QI(-4) =>
           /\ QLe(QI(0), bandFiltMean2[p])
           /\ QLe(QI(0), bandFiltMAD2[p])
           /\ \E k \in OddKs :
                /\ EnoughNghbrs(Len(NghbrsAt(p, k)), k)
                /\ bandFiltMean2[p] = BgMean(NghbrsAt(p, k))
                /\ bandFiltMAD2[p] = BgMAD(NghbrsAt(p, k))

\* a field with a pixel that has statistics from a window larger than the
\* smallest, and a pixel that has none
C11_Witness ==
  /\ pc = "filtered"
  /\ \E p \in DOMAIN band :
       /\ bandFiltMean2[p] # QI(-4)
       /\ bandFiltMAD2[p] # QI(-4)
       /\ ~EnoughNghbrs(Len(NghbrsAt(p, minKsize)), minKsize)
  /\ \E q \in DOMAIN band : bandFiltMean2[q] = QI(-4)

\* C12: a pixel whose field value is -1 or -2 has Mean = MAD = -4 whatever
\* its neighbours are; a pixel whose field value is -3 is processed like a
\* valid pixel and has statistics whenever one of its windows has enough
\* valid neighbours.
C12_SkipRule ==
  pc = "filtered" =>
    \A p \in DOMAIN band :
      /\ band[p] \in {waterFlag, cloudFlag} =>
           /\ bandFiltMean2[p] = QI(-4)
           /\ bandFiltMAD2[p] = QI(-4)
      /\ band[p] = bgFlag =>
           ((\E k \in OddKs : EnoughNghbrs(Len(NghbrsAt(p, k)), k))
              => bandFiltMean2[p] # QI(-4))

\* the smallest window size whose statistics the filter kept for pixel p
UsedK(p) ==
  CHOOSE k \in OddKs :
    /\ FiltTmp(FiltBm, p, k, minKsize)[1] # QI(-4)
    /\ \A j \in OddKs : j < k => FiltTmp(FiltBm, p, j, minKsize)[1] = QI(-4)

\* the pixel of the field that position n of the k x k kernel of p reads
KernelCell(p, k, n) ==
  <<Reflect(p[1] - ((k - 1) \div 2) + ((n - 1) \div k), FiltBm[2]),
    Reflect(p[2] - ((k - 1) \div 2) + ((n - 1) % k), FiltBm[3])>>

\* the pixels of the field whose values are in the neighbour set of p
NghbrCells(p, k) ==
  {KernelCell(p, k, n) :
     n \in {m \in 1 .. k * k :
              MaskedKernel(FiltBm, p[1] + FiltBm[4], p[2] + FiltBm[4], k,
                           makeFootprint(k))[m] > 0}}

\* C13: for every pixel, the pixels on the edges of the field included, the
\* value at the pixel itself and at its immediate left and right neighbours
\* is never in the neighbour set from which its Mean and MAD are computed.
C13_CentreNeverItsOwnNeighbour ==
  pc = "filtered" =>
    \A p \in DOMAIN band :
      bandFiltMean2[p] # QI(-4) =>
        NghbrCells(p, UsedK(p))
          \cap {p, <<p[1], p[2] - 1>>, <<p[1], p[2] + 1>>} = {}

\* the flattened positions of the centre row, columns centre - 1 .. centre + 1
CrossCells(k) ==
  {((k - 1) \div 2) * k + c + 1 : c \in ((k - 1) \div 2) - 1 .. ((k - 1) \div 2) + 1}

\* C14: for every odd k >= 5 makeFootprint(k) is k x k, has exactly k * k - 3
\* cells equal to +1 and exactly 3 negative cells, which are the cells of
\* row (k - 1) / 2, columns (k - 1) / 2 - 1 .. (k - 1) / 2 + 1.
C14_FootprintShape ==
  pc = "footprinted" =>
    /\ DOMAIN loc.fp = 1 .. loc.kSize * loc.kSize
    /\ Cardinality({n \in DOMAIN loc.fp : loc.fp[n] = 1})
         = loc.kSize * loc.kSize - 3
    /\ {n \in DOMAIN loc.fp : loc.fp[n] < 0} = CrossCells(loc.kSize)
    /\ Cardinality(CrossCells(loc.kSize)) = 3

\* the footprint of the largest window of the filter has been made
C14_Witness ==
  /\ pc = "footprinted"
  /\ loc.kSize = maxKsize
  /\ loc.fp[10 * maxKsize + 11] < 0

\* the index pairs of the padded band (line 168), and the index pairs that
\* the slice bandMatrix[xmhk:xphk, ymhk:yphk] of pixel p names (lines 181-191)
PaddedIdx == Idx(FiltBm[2] + 2 * FiltBm[4], FiltBm[3] + 2 * FiltBm[4])

KernelIdx(p, k) ==
  ((p[1] + FiltBm[4] - ((k - 1) \div 2)) .. (p[1] + FiltBm[4] + ((k - 1) \div 2)))
    \X ((p[2] + FiltBm[4] - ((k - 1) \div 2)) .. (p[2] + FiltBm[4] + ((k - 1) \div 2)))

C15_KernelInsidePaddedBand ==
  pc = "filtered" =>
    \A p \in DOMAIN band : \A k \in OddKs : KernelIdx(p, k) \subseteq PaddedIdx

\* C15: for every shape of the field, every pixel and every window size the
\* k x k kernel lies entirely inside the symmetrically padded band, so a
\* pixel near the edge (one that the skip rule does not exclude) has a
\* statistic whenever one of its reflected windows has enough valid
\* neighbours.
C15_EdgePixelsGetStatistics ==
  /\ C15_KernelInsidePaddedBand
  /\ pc = "filtered" =>
       \A p \in DOMAIN band :
         (/\ band[p] \notin {waterFlag, cloudFlag}
          /\ \E k \in OddKs : EnoughNghbrs(Len(NghbrsAt(p, k)), k))
           => bandFiltMean2[p] # QI(-4)

\* the classes of a pixel, from the cropped layers: water (line 518), cloud
\* (lines 522-524) and background candidate (lines 548-554)
IsWaterPixel(p) == allArrays.LANDMASK[p] # 1

IsCloudPixel(p) ==
  \/ allArrays.BAND1x1k[p] + allArrays.BAND2x1k[p] > 900
  \/ allArrays.BAND32[p] < 265
  \/ (allArrays.BAND1x1k[p] + allArrays.BAND2x1k[p] > 700
        /\ allArrays.BAND32[p] < 285)

IsBgCandidate(p) ==
  LET dT == Abs(allArrays.BAND22[p] - allArrays.BAND31[p])
  IN  IF allArrays.SolarZenith[p] < 8500
      THEN allArrays.BAND22[p] > 325 /\ dT > 20
      ELSE allArrays.BAND22[p] > 310 /\ dT > 10

Sentinelled(p, v) ==
  IF IsBgCandidate(p) THEN bgFlag
  ELSE IF IsCloudPixel(p) THEN cloudFlag
  ELSE IF IsWaterPixel(p) THEN waterFlag
  ELSE v

MasksDone == pc \in {"filters", "tests", "reject", "frp", "confidence", "export"}

\* C16: in the mid-IR, thermal-IR and deltaT working fields every pixel holds
\* -3 if it is a background candidate, otherwise -2 if it is cloud, otherwise
\* -1 if it is water, otherwise its unmodified value.
C16_SentinelPriority ==
  MasksDone =>
    \A p \in DOMAIN loc.bgMask :
      /\ loc.b22bgMask[p] = Sentinelled(p, allArrays.BAND22[p])
      /\ loc.b31bgMask[p] = Sentinelled(p, allArrays.BAND31[p])
      /\ loc.deltaTbgMask[p]
           = Sentinelled(p, Abs(allArrays.BAND22[p] - allArrays.BAND31[p]))

\* a pixel that is water and cloud, and a background candidate that is water
\* or cloud, have been masked
C16_Witness ==
  /\ MasksDone
  /\ \E p \in DOMAIN loc.bgMask :
       IsWaterPixel(p) /\ IsCloudPixel(p) /\ loc.b22bgMask[p] = cloudFlag
  /\ \E p \in DOMAIN loc.bgMask :
       IsBgCandidate(p) /\ (IsWaterPixel(p) \/ IsCloudPixel(p))
         /\ loc.b31bgMask[p] = bgFlag

\* the sub-scores that apply to record i: five by day, three by night
SubScores(i) ==
  IF loc.firesDayFlag[i] = 1
  THEN {loc.C1day[i], loc.C2[i], loc.C3[i], loc.C4[i], loc.C5[i]}
  ELSE {loc.C1night[i], loc.C2[i], loc.C3[i]}

\* C17: when a sub-score that applies to an emitted fire is 0 its confidence
\* is exactly 0; in particular the confidence of an emitted day fire whose
\* eight neighbours are all cloud is exactly 0.
C17_ZeroScoreZeroConfidence ==
  Emitted =>
    \A i \in 1 .. Len(Rows) :
      /\ QI(0) \in SubScores(i) => Rows[i].FRP_confidence.prod = QI(0)
      /\ (loc.firesDayFlag[i] = 1 /\ Rows[i].FRP_AdjCloud = 8)
           => Rows[i].FRP_confidence.prod = QI(0)

\* a record of a day fire with eight cloud neighbours, whose cloud score is 0
\* and whose water score is 1
C17_Witness ==
  /\ Emitted
  /\ \E i \in 1 .. Len(Rows) :
       /\ loc.firesDayFlag[i] = 1
       /\ Rows[i].FRP_AdjCloud = 8
       /\ loc.C4[i] = QI(0)
       /\ loc.C5[i] = QI(1)

\* 1 - min(n, 6) / 6
AdjScore(n) == QSub(QI(1), Q(IF n < 6 THEN n ELSE 6, 6))

\* C18: for an emitted day fire with n adjacent cloud pixels the cloud
\* score C4 is 1 - min(n, 6) / 6, and likewise the water score C5 for its
\* adjacent water pixels.
C18_AdjacencyScores ==
  Emitted =>
    \A i \in 1 .. Len(Rows) :
      loc.firesDayFlag[i] = 1 =>
        /\ loc.C4[i] = AdjScore(Rows[i].FRP_AdjCloud)
        /\ loc.C5[i] = AdjScore(Rows[i].FRP_AdjWater)

\* the BAND22 and BAND21 values that were read for pixel p of the crop, and
\* the mid-IR value that the saturation rule gives it
ReadB22(p) == fullArrays.BAND22[<<p[1] + loc.min0, p[2] + loc.min1>>]
ReadB21(p) == fullArrays.BAND21[<<p[1] + loc.min0, p[2] + loc.min1>>]

MidIR(p) == IF ReadB22(p) >= b22saturationVal THEN ReadB21(p) ELSE ReadB22(p)

\* C19: every pixel whose BAND22 is at least 331 has its mid-IR value
\* replaced by BAND21 and every other pixel keeps BAND22, before any mask or
\* deltaT is made; the masks, deltaT, the working fields and the FRPT21
\* column use the substituted value.
C19_SaturationSubstitution ==
  /\ "deltaT" \in DOMAIN loc =>
       \A p \in DOMAIN loc.deltaT :
         /\ allArrays.BAND22[p] = MidIR(p)
         /\ loc.deltaT[p] = Abs(MidIR(p) - allArrays.BAND31[p])
         /\ (loc.bgMask[p] = bgFlag) <=>
              IF loc.dayFlag[p] = 1
              THEN MidIR(p) > 325 /\ loc.deltaT[p] > 20
              ELSE MidIR(p) > 310 /\ loc.deltaT[p] > 10
         /\ loc.b22CloudWaterMasked[p] \in {MidIR(p), waterFlag, cloudFlag}
  /\ Emitted =>
       \A i \in 1 .. Len(Rows) : Rows[i].FRPT21 = MidIR(loc.fires[i])

\* a record of a pixel whose BAND22 is saturated, with BAND21 in FRPT21
C19_Witness ==
  /\ Emitted
  /\ \E i \in 1 .. Len(Rows) :
       /\ ReadB22(loc.fires[i]) >= b22saturationVal
       /\ ReadB21(loc.fires[i]) # ReadB22(loc.fires[i])
       /\ Rows[i].FRPT21 = ReadB21(loc.fires[i])

\* C20: line and sample of a record index the grid that was read, before
\* the crop: LAT and LON of that grid at [line, sample] are the latitude and
\* longitude of the record.
C20_LineSampleIndexFullGrid ==
  Emitted =>
    \A i \in 1 .. Len(Rows) :
      /\ <<Rows[i].FRPline, Rows[i].FRPsample>> \in DOMAIN fullArrays.LAT
      /\ fullArrays.LAT[<<Rows[i].FRPline, Rows[i].FRPsample>>] = Rows[i].FRPlats
      /\ fullArrays.LON[<<Rows[i].FRPline, Rows[i].FRPsample>>] = Rows[i].FRPlons
      /\ Rows[i].FRPline = loc.fires[i][1] + loc.min0
      /\ Rows[i].FRPsample = loc.fires[i][2] + loc.min1

\* a record from a crop that starts after the first row and the first
\* column, of a pixel that is not in the first row or column of the crop
C20_Witness ==
  /\ Emitted
  /\ loc.min0 > 0 /\ loc.min1 > 0
  /\ \E i \in 1 .. Len(Rows) : loc.fires[i][1] > 0 /\ loc.fires[i][2] > 0

\* the run has ended: the batch is exhausted, or an exception left map()
Ended == pc \in {"done", "raised"}

\* C21: a granule whose layers cannot be opened is skipped and every granule
\* after it in the batch is still processed: when the run has ended no
\* granule of the batch is left unprocessed.
C21_BatchSurvivesUnreadableGranule ==
  Ended => fileIdx >= Len(filList)

\* the pixels of granule g whose latitude and longitude lie inside the box
InBox(g) ==
  {p \in FullIdx : /\ minLat < GeoLat(g.geo, p) /\ GeoLat(g.geo, p) < maxLat
                   /\ minLon < GeoLon(g.geo, p) /\ GeoLon(g.geo, p) < maxLon}

\* no pixel in the box, or pixels of fewer than two rows or two columns
TooFewInBox(g) ==
  \/ Cardinality({p[1] : p \in InBox(g)}) < 2
  \/ Cardinality({p[2] : p \in InBox(g)}) < 2

\* C22: a granule whose pixels inside the bounding box are none, or lie in
\* fewer than two rows or fewer than two columns, is skipped: no file is
\* written for it, no error is raised, and the run goes on to the next
\* granule.
C22_EmptyCropSkipped ==
  /\ [](\A f \in 1 .. Len(csvFiles) : ~TooFewInBox(filList[csvFiles[f].file]))
  /\ [][(pc = "clip" /\ TooFewInBox(filList[fileIdx]))
          => /\ csvFiles' = csvFiles
             /\ fileIdx' = fileIdx + 1
             /\ pc' = IF fileIdx = Len(filList) THEN "done" ELSE "open"]_vars

\* a readable granule with too few pixels in the box was skipped and a
\* granule after it wrote a file
C22_Witness ==
  \E f \in 1 .. Len(csvFiles) : \E i \in 1 .. csvFiles[f].file - 1 :
    filList[i].readable /\ TooFewInBox(filList[i])

\* C23: a file is written for a granule only if at least one fire record
\* is emitted for it.
C23_NoFileWithoutRecord ==
  \A f \in 1 .. Len(csvFiles) : Len(csvFiles[f].rows) > 0

\* C24: when the cascade is run again on the same input with the pixels of
\* its final fire mask F marked as background candidates, the final fire
\* mask of the second run has no pixel outside F.
C24_RerunFindsNoNewFire ==
  (pc = "frp" /\ "firstFires" \in DOMAIN loc) =>
    \A p \in DOMAIN loc.allFires :
      loc.allFires[p] >= 1 => loc.firstFires[p] >= 1

\* whether a file was written for granule i
Wrote(i) == \E f \in 1 .. Len(csvFiles) : csvFiles[f].file = i

\* C25: the records of a granule depend on its own input only, not on the
\* granules processed before it or on the order of the batch: wherever the
\* same granule stands in the batch, the same file with the same records
\* is written for it.
C25_NoCrossGranuleState ==
  /\ \A f, g \in 1 .. Len(csvFiles) :
       filList[csvFiles[f].file] = filList[csvFiles[g].file]
         => csvFiles[f].rows = csvFiles[g].rows
  /\ Ended =>
       \A i, j \in 1 .. Len(filList) :
         filList[i] = filList[j] => (Wrote(i) <=> Wrote(j))

\* the granule that the locals belong to: process() has returned from it
\* when pc is "open" or "done"
InHand == IF pc \in {"open", "done"} THEN fileIdx - 1 ELSE fileIdx

\* the selected pixels of the granule in hand are day and night pixels at
\* once, for which line 804 raises
MixedDayNight ==
  /\ "firesDayFlag" \in DOMAIN loc
  /\ \E i, j \in 1 .. Len(loc.firesDayFlag) :
       loc.firesDayFlag[i] = 0 /\ loc.firesDayFlag[j] = 1

\* C26: the file of a granule is written in one step, after all of its
\* computation: csvFiles changes only by one whole file, appended by the
\* last step of the granule, and a granule that stops with an error at an
\* earlier stage leaves no file.
C26_GranuleOutputAtomic ==
  /\ [](pc = "raised" => ~Wrote(fileIdx))
  /\ [](MixedDayNight => ~Wrote(InHand))
  /\ [][csvFiles' # csvFiles =>
          /\ pc = "export"
          /\ Len(csvFiles') = Len(csvFiles) + 1
          /\ \A f \in 1 .. Len(csvFiles) : csvFiles'[f] = csvFiles[f]
          /\ csvFiles'[Len(csvFiles')].file = fileIdx
          /\ fileIdx' = fileIdx + 1]_vars

\* a granule stopped with an error at the confidence stage, after its fire
\* mask and its FRP were computed, and no file exists for it
C26_Witness ==
  /\ pc = "raised"
  /\ MixedDayNight
  /\ "frpMWabs" \in DOMAIN loc
  /\ ~Wrote(fileIdx)

\* C27: no pixel that the mask builder flags as water (LANDMASK # 1) or as
\* cloud is ever emitted as a fire record.
C27_NoWaterOrCloudRecord ==
  Emitted =>
    \A i \in 1 .. Len(Rows) :
      /\ loc.waterMask[loc.fires[i]] # waterFlag
      /\ loc.cloudMask[loc.fires[i]] # cloudFlag

\* C28: every pixel of the granule whose latitude and longitude lie inside
\* the bounding box is in the cropped grid on which detection runs, the
\* pixels of the last row and the last column inside the box included.
C28_CropHoldsEveryInBoxPixel ==
  (pc = "masks" \/ MasksDone) =>
    \A p \in InBox(filList[fileIdx]) :
      <<p[1] - loc.min0, p[2] - loc.min1>> \in DOMAIN allArrays.LAT

\* C29: every emitted record has a latitude and a longitude inside the
\* bounding box.
C29_RecordsInsideBox ==
  \A f \in 1 .. Len(csvFiles) : \A i \in 1 .. Len(csvFiles[f].rows) :
    /\ minLat < csvFiles[f].rows[i].FRPlats
    /\ csvFiles[f].rows[i].FRPlats < maxLat
    /\ minLon < csvFiles[f].rows[i].FRPlons
    /\ csvFiles[f].rows[i].FRPlons < maxLon

====
